---- MODULE Spec2Model ----
\* A model of the wavespeed adapter's credential rotation and task lifecycle:
\* WavespeedClient (src/app/wavespeed_client.py) and the completion flows that
\* drive it (src/app/main.py).
EXTENDS Integers, Sequences, FiniteSets, TLC

\* ------------------------------------------------------------------ bounds

\* Largest number of cookies the configuration lists (WAVESPEED_COOKIE).
MaxPool == 3

\* Cookies are opaque strings; the model names them 1..MaxPool.
Tokens == 1..MaxPool

\* Most passes of its polling loop that a concurrent request makes.
MaxPeerPolls == 3

\* Seconds for which a stream that shares the event loop is followed.
MaxSharedTime == 30

\* Largest number of cookies in the pool while one task is polled.
MaxPollPool == 1

\* Most seconds that the check_status calls of one polling take in total; a
\* check_status call with no latency left returns at once.
MaxLag == 1

\* The seed tags in one prompt.
MaxSeedTags == 2

\* The pieces of text in one prompt.
MaxPieces == 3

\* ------------------------------------------------------- program constants

\* _handle_token_error: "if count >= 3".
EvictThreshold == 3

\* create_task: max_attempts = max(len(self.cookies) * 2, 5).
MinAttempts == 5
AttemptsPerCookie == 2

\* poll_result: "timeout: int = 120" and "time.sleep(2)".
PollTimeout == 120
PollInterval == 2

\* stream_generator: "> 300", ">= 10" and "asyncio.sleep(2)".
StreamTimeout == 300
KeepAliveInterval == 10
StreamInterval == 2

\* ------------------------------------------------------------- Python values

\* Python's None / a missing dict key.
Absent == "<absent>"

Range(s) == {s[i] : i \in 1..Len(s)}

Max(a, b) == IF a >= b THEN a ELSE b

\* list.remove(x): drops the first occurrence of x.
RECURSIVE ListRemove(_, _)
ListRemove(s, x) ==
    IF s = <<>> THEN <<>>
    ELSE IF Head(s) = x THEN Tail(s)
    ELSE <<Head(s)>> \o ListRemove(Tail(s), x)

\* config.WAVESPEED_COOKIE: the comma-separated setting, stripped, empty items
\* dropped, duplicates kept.  Cookies are opaque, so one list stands for all
\* its renamings: the first cookie is 1, and a new cookie is one more than the
\* largest seen so far.
IsCookieList(s) ==
    \A i \in 1..Len(s) :
        \/ s[i] = 1
        \/ \E j \in 1..(i - 1) : s[i] <= s[j] + 1

ConfiguredCookies ==
    {s \in UNION {[1..n -> Tokens] : n \in 0..MaxPool} : IsCookieList(s)}

\* ------------------------------------------------------- the credential pool

\* Mutant: the cursor is used as stored, without the modulo of line 35.
get_token_no_modulo(cks, idx) ==
    IF cks = <<>>
    THEN [raised |-> "NoCookies", token |-> Absent, index |-> idx]
    ELSE IF idx >= Len(cks)
         THEN [raised |-> "IndexError", token |-> Absent, index |-> idx]
         ELSE [raised |-> "none", token |-> cks[idx + 1],
               index |-> (idx + 1) % Len(cks)]

\* Mutant: the cursor is not advanced after the selection (line 39 dropped).
get_token_no_advance(cks, idx) ==
    IF cks = <<>>
    THEN [raised |-> "NoCookies", token |-> Absent, index |-> idx]
    ELSE [raised |-> "none", token |-> cks[(idx % Len(cks)) + 1],
          index |-> idx % Len(cks)]

\* Mutant: the emptiness test of line 30 is dropped, so the modulo divides by
\* zero on an empty list.
get_token_no_empty_check(cks, idx) ==
    IF cks = <<>>
    THEN [raised |-> "ZeroDivisionError", token |-> Absent, index |-> idx]
    ELSE [raised |-> "none", token |-> cks[(idx % Len(cks)) + 1],
          index |-> ((idx % Len(cks)) + 1) % Len(cks)]

\* WavespeedClient._get_token_and_headers: what it raises, the cookie it
\* returns and the cursor it leaves.
_get_token_and_headers(cks, idx) ==
    IF cks = <<>>
    THEN [raised |-> "NoCookies", token |-> Absent, index |-> idx]
    ELSE LET i == idx % Len(cks)
         IN IF i >= Len(cks)
            THEN [raised |-> "IndexError", token |-> Absent, index |-> i]
            ELSE [raised |-> "none", token |-> cks[i + 1],
                  index |-> (i + 1) % Len(cks)]

\* Mutant: the counter is kept but the cookie is never removed.
handle_token_error_no_removal(cks, counts, token, is_insufficient_credits) ==
    IF is_insufficient_credits
    THEN [cookies |-> cks, counts |-> [counts EXCEPT ![token] = @ + 1]]
    ELSE [cookies |-> cks, counts |-> counts]

\* Mutant: a cookie is removed one report too early.
handle_token_error_early(cks, counts, token, is_insufficient_credits) ==
    IF is_insufficient_credits
    THEN LET count == counts[token] + 1
         IN [cookies |-> IF count >= EvictThreshold - 1 /\ token \in Range(cks)
                         THEN ListRemove(cks, token) ELSE cks,
             counts |-> [counts EXCEPT ![token] = count]]
    ELSE [cookies |-> cks, counts |-> counts]

\* WavespeedClient._handle_token_error: the cookie list and the failure
\* counters it leaves.
_handle_token_error(cks, counts, token, is_insufficient_credits) ==
    IF is_insufficient_credits
    THEN LET count == counts[token] + 1
         IN [cookies |-> IF count >= EvictThreshold /\ token \in Range(cks)
                         THEN ListRemove(cks, token) ELSE cks,
             counts |-> [counts EXCEPT ![token] = count]]
    ELSE [cookies |-> cks, counts |-> counts]

\* ------------------------------------------------- the submission responses

\* What requests.post can give: no response at all (an exception), or a
\* status code with a body that parses as JSON or not, with its "message" and
\* "id" fields.
NoResponse == [sent |-> FALSE, status_code |-> 0, is_json |-> FALSE,
               message |-> Absent, id |-> Absent]

TaskIds == {"t1", "t2"}

\* Messages that contain the text "Insufficient credits".
MarkerMessages == {"Insufficient credits"}

SubmitResponses ==
    {NoResponse}
    \cup {[sent |-> TRUE, status_code |-> 400, is_json |-> TRUE,
           message |-> m, id |-> Absent] : m \in {"Insufficient credits", "Invalid size"}}
    \cup {[sent |-> TRUE, status_code |-> c, is_json |-> FALSE,
           message |-> Absent, id |-> Absent] : c \in {400, 500, 200}}
    \cup {[sent |-> TRUE, status_code |-> 200, is_json |-> TRUE,
           message |-> Absent, id |-> i] : i \in TaskIds \cup {Absent}}

\* Mutant: every HTTP 400 counts as insufficient credits.
is_insufficient_any_400(resp) ==
    resp.sent /\ resp.status_code = 400

\* create_task, lines 118-122: HTTP 400 whose JSON message holds the marker.
is_insufficient_credits(resp) ==
    /\ resp.sent
    /\ resp.status_code = 400
    /\ resp.is_json
    /\ resp.message \in MarkerMessages

\* response.raise_for_status(): raises on a 4xx or 5xx status.
raise_for_status(resp) == resp.status_code >= 400

\* Mutant: the attempt budget ignores the pool size.
max_attempts_fixed(cks) == MinAttempts

\* create_task, line 106.
compute_max_attempts(cks) == Max(Len(cks) * AttemptsPerCookie, MinAttempts)

\* Mutant: one attempt too many.
loop_condition_off_by_one(n, maxn, cks) == n <= maxn /\ cks # <<>>

\* Mutant: the loop does not look at the pool.
loop_condition_no_pool(n, maxn, cks) == n < maxn

\* create_task, line 110: while attempts < max_attempts and self.cookies.
loop_condition(n, maxn, cks) == n < maxn /\ cks # <<>>

\* Mutant: a success does not reset the counter.
reset_nothing(counts, token) == counts

\* create_task, line 132: self.token_failure_counts[token] = 0.
reset_failure_count(counts, token) == [counts EXCEPT ![token] = 0]

\* create_task, lines 134-137: the task id of a success body, or the error
\* raised for it.
parse_task_id(resp) ==
    IF ~resp.is_json THEN [raised |-> "JSONDecodeError", task_id |-> Absent]
    ELSE IF resp.id = Absent THEN [raised |-> "NoTaskId", task_id |-> Absent]
    ELSE [raised |-> "none", task_id |-> resp.id]

\* --------------------------------------------------- the status responses

\* The task's fields in a status body: "status", "outputs" (with whether the
\* key is there) and "error".
StatusBodies ==
    {[status |-> "succeeded", has_outputs |-> TRUE, outputs |-> o, error |-> Absent] :
        o \in {<<>>, <<"u1">>, <<"u2", "u1">>, <<"">>}}
    \cup {[status |-> "completed", has_outputs |-> TRUE, outputs |-> <<"u1">>,
            error |-> Absent]}
    \cup {[status |-> s, has_outputs |-> FALSE, outputs |-> <<>>, error |-> Absent] :
        s \in {"succeeded", "failed", "processing", "error", Absent}}
    \cup {[status |-> s, has_outputs |-> TRUE, outputs |-> <<"u1">>, error |-> "x"] :
        s \in {"failed", "processing"}}

NoBody == [status |-> Absent, has_outputs |-> FALSE, outputs |-> <<>>, error |-> Absent]

\* What requests.get can give: an exception, an error status, a body that is
\* not JSON, a JSON object whose "data" is not an object, or a body with the
\* task's fields at the top level or under "data".
StatusResponses ==
    {[sent |-> FALSE, http_ok |-> FALSE, is_json |-> FALSE, wrapped |-> FALSE,
      data_ok |-> FALSE, data |-> NoBody],
     [sent |-> TRUE, http_ok |-> FALSE, is_json |-> TRUE, wrapped |-> FALSE,
      data_ok |-> FALSE, data |-> NoBody],
     [sent |-> TRUE, http_ok |-> TRUE, is_json |-> FALSE, wrapped |-> FALSE,
      data_ok |-> FALSE, data |-> NoBody],
     [sent |-> TRUE, http_ok |-> TRUE, is_json |-> TRUE, wrapped |-> TRUE,
      data_ok |-> FALSE, data |-> NoBody]}
    \cup {[sent |-> TRUE, http_ok |-> TRUE, is_json |-> TRUE, wrapped |-> FALSE,
           data_ok |-> TRUE, data |-> b] : b \in StatusBodies}
    \cup {[sent |-> TRUE, http_ok |-> TRUE, is_json |-> TRUE, wrapped |-> TRUE,
           data_ok |-> TRUE, data |-> b] :
           b \in {c \in StatusBodies : c.has_outputs}}

NoStatusResponse == [sent |-> FALSE, http_ok |-> FALSE, is_json |-> FALSE,
                     wrapped |-> FALSE, data_ok |-> FALSE, data |-> NoBody]

StatusError(msg) == [status |-> "error", output |-> Absent, error |-> msg]

NoResult == [status |-> Absent, output |-> Absent, error |-> Absent]

\* Mutant: a failed task's own error is not passed on.
normalize_status_drops_reason(data) ==
    IF data.status \in {"succeeded", "completed"}
    THEN LET outputs == IF data.has_outputs THEN data.outputs ELSE <<>>
         IN IF outputs # <<>>
            THEN [status |-> "succeeded", output |-> outputs[1], error |-> Absent]
            ELSE [status |-> "failed", output |-> Absent,
                  error |-> "Task succeeded but no outputs found."]
    ELSE IF data.status = "failed"
    THEN [status |-> "failed", output |-> Absent, error |-> "Unknown error"]
    ELSE [status |-> data.status, output |-> Absent, error |-> Absent]

\* check_status, lines 170-186: the result for the task's fields.
normalize_status(data) ==
    IF data.status \in {"succeeded", "completed"}
    THEN LET outputs == IF data.has_outputs THEN data.outputs ELSE <<>>
         IN IF outputs # <<>>
            THEN [status |-> "succeeded", output |-> outputs[1], error |-> Absent]
            ELSE [status |-> "failed", output |-> Absent,
                  error |-> "Task succeeded but no outputs found."]
    ELSE IF data.status = "failed"
    THEN [status |-> "failed", output |-> Absent,
          error |-> IF data.error = Absent THEN "Unknown error" ELSE data.error]
    ELSE [status |-> data.status, output |-> Absent, error |-> Absent]

\* Mutant: the checkout is made before the try block, so its exception leaves
\* check_status.
check_status_checkout_outside_try(co, resp) ==
    IF co.raised # "none" THEN [raised |-> co.raised, result |-> NoResult]
    ELSE IF ~resp.sent \/ ~resp.http_ok \/ ~resp.is_json \/ ~resp.data_ok
    THEN [raised |-> "none", result |-> StatusError("request failed")]
    ELSE [raised |-> "none", result |-> normalize_status(resp.data)]

\* WavespeedClient.check_status after its checkout `co`: what it raises and
\* the result it returns.
check_status(co, resp) ==
    IF co.raised # "none"
    THEN [raised |-> "none", result |-> StatusError(co.raised)]
    ELSE IF ~resp.sent
    THEN [raised |-> "none", result |-> StatusError("ConnectionError")]
    ELSE IF ~resp.http_ok
    THEN [raised |-> "none", result |-> StatusError("HTTPError")]
    ELSE IF ~resp.is_json
    THEN [raised |-> "none", result |-> StatusError("JSONDecodeError")]
    ELSE IF ~resp.data_ok
    THEN [raised |-> "none", result |-> StatusError("AttributeError")]
    ELSE [raised |-> "none", result |-> normalize_status(resp.data)]

\* ------------------------------------------------------------------- state

VARIABLES
    \* WavespeedClient
    cookies,                \* self.cookies
    current_cookie_index,   \* self.current_cookie_index
    token_failure_counts,   \* self.token_failure_counts (a missing key is 0)
    \* the create_task call in progress
    pc,                     \* "idle", "loop" (at the while test) or "done"
    max_attempts,
    attempts,
    last_error,
    outcome,                \* what the call returned or raised
    \* history
    recent,                 \* cookies checked out since the last removal
    streak,                 \* per cookie: insufficient-credits reports since
                            \* its last successful submission
    evicted,                \* cookies that _handle_token_error has removed
    checkout_log,           \* the latest checkout: pool size before, outcome
    call_log,               \* the call so far: pool size at its start, its
                            \* checkouts and posts, the latest response, and,
                            \* while every response was insufficient credits
                            \* (and then one task id), the reports per cookie
                            \* and the cookies removed
    \* the polling of one task: poll_result, or stream_generator in main.py
    flow,                   \* "none", "poll_result" or "stream"
    fpc,                    \* "idle", "loop", "finish" (after the stream's
                            \* loop) or "done"
    now,                    \* time.time(), in seconds
    start_time,
    last_keepalive_time,
    result,                 \* the latest result of check_status
    image_url,
    frames,                 \* what stream_generator has yielded
    flow_outcome,           \* what poll_result returned or raised
    poll_log,               \* history of the polls: how many, the call time,
                            \* the latest response and what check_status
                            \* raised for it, when the latest poll began,
                            \* how long it took and when the one before it
                            \* returned, how many polls reported succeeded
                            \* or failed, the seconds spent inside
                            \* check_status, when the stream's latest
                            \* heartbeat (or, before any, its first chunk)
                            \* was yielded and how long after the one
                            \* before
    \* the request being served by chat_completions (main.py)
    request,                \* its phase, "none" when the client is used
                            \* without a request, and its "stream" flag
    http_response,          \* the response the handler has returned
    upload_log,             \* history of the result's materialization: the
                            \* backend's URL, what the uploader was set to
                            \* and did, what it returned, the final URL
    peer,                   \* another request's poll_result on the same
                            \* event loop: its phase, its polls so far and
                            \* the seconds it has slept
    seeding,                \* the seed of the request: the seed tags of its
                            \* prompt, params["seed"] after the extraction
                            \* and the seed of the submitted payload
    extraction              \* a prompt, what extract_params_from_prompt
                            \* returned for it and what it returned for the
                            \* cleaned prompt of that

poolVars == <<cookies, current_cookie_index, token_failure_counts>>
callVars == <<pc, max_attempts, attempts, last_error, outcome>>
histVars == <<recent, streak, evicted, checkout_log, call_log>>
flowVars == <<flow, fpc, now, start_time, last_keepalive_time, result,
              image_url, frames, flow_outcome, poll_log>>
reqVars == <<request, http_response, upload_log, peer, seeding,
                   extraction>>
vars == <<poolVars, callVars, histVars, flowVars, reqVars>>

NoOutcome == [kind |-> "none", task_id |-> Absent, attempts |-> 0, last_error |-> Absent]
NoCheckout == [made |-> FALSE, size |-> 0, raised |-> "none", token |-> Absent,
               cursor |-> 0, during |-> "none"]
NoReports == [t \in Tokens |-> 0]

NoFlowOutcome == [kind |-> "none", value |-> Absent]

NoRequest == [phase |-> "none", stream |-> FALSE]

NoPeer == [phase |-> "none", polls |-> 0, held |-> 0]

\* A seed: None, or an integer as its sign and its decimal digits (Python
\* integers have no width, and 2^31 has to be told from 2^31 - 1).
NoneSeed == [none |-> TRUE, neg |-> FALSE, digits |-> <<>>]

NoSeeding == [pc |-> "none", tags |-> <<>>, params |-> NoneSeed,
              payload |-> NoneSeed]

\* params == {} (utils.py, line 42): no key is set.
NoParams == [height |-> NoneSeed, width |-> NoneSeed, seed |-> NoneSeed,
             output_format |-> [none |-> TRUE, text |-> <<>>]]

NoExtracted == [cleaned |-> <<>>, loras |-> <<>>, params |-> NoParams]

NoExtraction == [pc |-> "none", prompt |-> <<>>, first |-> NoExtracted,
                 second |-> NoExtracted]

NoHttpResponse == [status |-> 0, shape |-> "none",
                   content |-> [kind |-> "none", arg |-> Absent],
                   detail |-> [kind |-> "none", arg |-> Absent]]

NoUpload == [made |-> FALSE, called |-> FALSE, raw |-> Absent,
             enabled |-> FALSE, download_ok |-> FALSE, upload_ok |-> FALSE,
             returned |-> Absent, final |-> Absent]

NoPolls == [count |-> 0, called_at |-> 0, response |-> NoStatusResponse,
            raised |-> "none", began |-> 0, latest |-> 0,
            prev_returned |-> 0, reported |-> 0, lag |-> 0,
            beat_at |-> 0, beat_gap |-> 0]

NoCall == [size |-> 0, checkouts |-> 0, posts |-> 0, response |-> NoResponse,
           pattern |-> "insufficient", reports |-> NoReports, removed |-> {}]

\* WavespeedClient.__init__ with the configured cookie list.
InitClient(cks) ==
    /\ cookies = cks
    /\ current_cookie_index = 0
    /\ token_failure_counts = [t \in Tokens |-> 0]
    /\ pc = "idle"
    /\ max_attempts = 0
    /\ attempts = 0
    /\ last_error = Absent
    /\ outcome = NoOutcome
    /\ recent = <<>>
    /\ streak = [t \in Tokens |-> 0]
    /\ evicted = {}
    /\ checkout_log = NoCheckout
    /\ call_log = NoCall

\* No task is being polled.
InitFlow ==
    /\ flow = "none"
    /\ fpc = "idle"
    /\ now = 0
    /\ start_time = 0
    /\ last_keepalive_time = 0
    /\ result = NoResult
    /\ image_url = Absent
    /\ frames = <<>>
    /\ flow_outcome = NoFlowOutcome
    /\ poll_log = NoPolls

\* No request is being served.
InitRequest ==
    /\ request = NoRequest
    /\ http_response = NoHttpResponse
    /\ upload_log = NoUpload
    /\ peer = NoPeer
    /\ seeding = NoSeeding
    /\ extraction = NoExtraction

Init == \E cks \in ConfiguredCookies : InitClient(cks) /\ InitFlow /\ InitRequest

\* The checkouts since the last removal, at most one round of them.
Remember(rec, cksBefore, cksAfter, token) ==
    IF cksAfter # cksBefore THEN <<>>
    ELSE LET all == Append(rec, token)
         IN IF Len(all) > Len(cksAfter) THEN Tail(all) ELSE all

LogCheckout(cks, co) ==
    [made |-> TRUE, size |-> Len(cks), raised |-> co.raised, token |-> co.token,
     cursor |-> current_cookie_index, during |-> pc]

\* ------------------------------------------------------------- create_task

\* create_task up to its while loop (lines 106-108).
CreateTaskStart ==
    /\ pc = "idle"
    /\ pc' = "loop"
    /\ max_attempts' = compute_max_attempts(cookies)
    /\ attempts' = 0
    /\ last_error' = Absent
    /\ outcome' = NoOutcome
    /\ call_log' = [NoCall EXCEPT !.size = Len(cookies)]
    /\ UNCHANGED <<poolVars, recent, streak, evicted, checkout_log>>
    /\ UNCHANGED <<flowVars, reqVars>>

\* One pass of the while loop (lines 110-146): a checkout, a post, and the
\* handling of its response, up to the return or the continue.
CreateTaskAttempt ==
    /\ pc = "loop"
    /\ loop_condition(attempts, max_attempts, cookies)
    /\ UNCHANGED <<flowVars, reqVars>>
    /\ \E resp \in SubmitResponses :
       LET co == _get_token_and_headers(cookies, current_cookie_index)
           token == co.token
           insufficient == resp.sent /\ is_insufficient_credits(resp)
           failed == ~resp.sent \/ (~insufficient /\ raise_for_status(resp))
           parsed == parse_task_id(resp)
           handled == _handle_token_error(cookies, token_failure_counts, token, TRUE)
           returns == ~insufficient /\ ~failed /\ parsed.raised = "none"
           \* the responses so far: insufficient credits only, those and then
           \* a task id, or anything else
           pattern == IF call_log.pattern = "insufficient" /\ insufficient
                      THEN "insufficient"
                      ELSE IF call_log.pattern = "insufficient" /\ returns
                      THEN "then_success"
                      ELSE "other"
       IN /\ attempts' = attempts + 1
          /\ checkout_log' = LogCheckout(cookies, co)
          /\ UNCHANGED max_attempts
          /\ IF co.raised # "none"
             THEN \* line 112 is outside the try: the exception leaves create_task
                  /\ pc' = "done"
                  /\ outcome' = [kind |-> co.raised, task_id |-> Absent,
                                 attempts |-> attempts + 1, last_error |-> last_error]
                  /\ current_cookie_index' = co.index
                  /\ UNCHANGED <<cookies, token_failure_counts, last_error,
                                 recent, streak, evicted>>
                  /\ call_log' = [call_log EXCEPT !.checkouts = @ + 1]
             ELSE /\ current_cookie_index' = co.index
                  /\ cookies' = IF insufficient THEN handled.cookies ELSE cookies
                  /\ token_failure_counts' =
                        IF insufficient THEN handled.counts
                        ELSE IF failed THEN token_failure_counts
                        ELSE reset_failure_count(token_failure_counts, token)
                  /\ last_error' =
                        IF ~resp.sent THEN "ConnectionError"
                        ELSE IF insufficient THEN "Insufficient credits"
                        ELSE IF failed THEN "HTTPError"
                        ELSE IF parsed.raised # "none" THEN parsed.raised
                        ELSE last_error
                  /\ pc' = IF returns THEN "done" ELSE "loop"
                  /\ outcome' = IF returns
                                THEN [kind |-> "returned", task_id |-> parsed.task_id,
                                      attempts |-> attempts + 1, last_error |-> last_error]
                                ELSE outcome
                  /\ recent' = Remember(recent, cookies, cookies', token)
                  /\ evicted' = IF cookies' # cookies THEN evicted \cup {token}
                                ELSE evicted
                  /\ streak' = IF insufficient THEN [streak EXCEPT ![token] = @ + 1]
                               ELSE IF failed THEN streak
                               ELSE [streak EXCEPT ![token] = 0]
                  /\ call_log' =
                        [call_log EXCEPT
                            !.checkouts = @ + 1,
                            !.posts = @ + 1,
                            !.response = resp,
                            !.pattern = pattern,
                            !.reports = IF pattern = "other" THEN NoReports
                                        ELSE IF insufficient
                                        THEN [@ EXCEPT ![token] = @ + 1] ELSE @,
                            !.removed = IF pattern = "other" THEN {}
                                        ELSE IF cookies' # cookies
                                        THEN @ \cup {token} ELSE @]

\* The loop ends without a return (line 149).
CreateTaskExhausted ==
    /\ pc = "loop"
    /\ ~loop_condition(attempts, max_attempts, cookies)
    /\ pc' = "done"
    /\ outcome' = [kind |-> "SubmissionExhausted", task_id |-> Absent,
                   attempts |-> attempts, last_error |-> last_error]
    /\ UNCHANGED <<poolVars, max_attempts, attempts, last_error, histVars>>
    /\ UNCHANGED <<flowVars, reqVars>>

\* create_task returns or raises to its caller: the call's locals are gone
\* and the client is free for the next call.
CreateTaskReturn ==
    /\ pc = "done"
    /\ pc' = "idle"
    /\ max_attempts' = 0
    /\ attempts' = 0
    /\ last_error' = Absent
    /\ outcome' = NoOutcome
    /\ call_log' = NoCall
    /\ UNCHANGED <<poolVars, recent, streak, evicted, checkout_log>>
    /\ UNCHANGED flowVars

\* The caller has the call's result.
CreateTaskDone ==
    /\ CreateTaskReturn
    /\ UNCHANGED reqVars

\* ------------------------------------------------------------ check_status

\* One check_status call (lines 151-190) whose result the caller drops: a
\* checkout and a get.
CheckStatus ==
    /\ pc = "idle"
    /\ \E resp \in StatusResponses :
        LET co == _get_token_and_headers(cookies, current_cookie_index)
            r == check_status(co, resp)
        IN /\ r.raised = "none"
           /\ current_cookie_index' = co.index
           /\ checkout_log' = LogCheckout(cookies, co)
           /\ recent' = IF co.raised = "none"
                        THEN Remember(recent, cookies, cookies, co.token)
                        ELSE recent
    /\ UNCHANGED <<cookies, token_failure_counts, callVars, streak, evicted,
                   call_log>>
    /\ UNCHANGED <<flowVars, reqVars>>

\* ------------------------------------------------------------- poll_result

\* Mutant: the loop gives up one sleep before the timeout.
poll_loop_condition_early(t, start, timeout) == t - start < timeout - PollInterval

\* poll_result, line 199: "while time.time() - start_time < timeout".
poll_loop_condition(t, start, timeout) == t - start < timeout

\* poll_result, line 211: the sleep that follows a poll that did not end the
\* call, whatever its status.
poll_sleep(status) == PollInterval

\* One check_status call made by a polling loop, taking d seconds: the cursor,
\* the histories and the result after it. `beat` says that the pass yields a
\* heartbeat after the call.
Poll(resp, d, beat) ==
    LET co == _get_token_and_headers(cookies, current_cookie_index)
        r == check_status(co, resp)
    IN /\ current_cookie_index' = co.index
       /\ checkout_log' = LogCheckout(cookies, co)
       /\ recent' = IF co.raised = "none"
                    THEN Remember(recent, cookies, cookies, co.token)
                    ELSE recent
       /\ result' = r.result
       /\ poll_log' = [poll_log EXCEPT
                          !.count = @ + 1,
                          !.response = resp,
                          !.raised = r.raised,
                          !.began = now,
                          !.prev_returned = IF poll_log.count = 0 THEN now
                                            ELSE poll_log.began + poll_log.latest,
                          !.latest = d,
                          !.reported = IF r.result.status \in {"succeeded", "failed"}
                                       THEN @ + 1 ELSE @,
                          !.lag = @ + d,
                          !.beat_at = IF beat THEN now + d ELSE @,
                          !.beat_gap = IF beat THEN now + d - poll_log.beat_at
                                       ELSE @]
       /\ UNCHANGED <<cookies, token_failure_counts, callVars, streak, evicted,
                      call_log>>

\* poll_result is called (lines 197-198).
PollResultStart ==
    /\ pc = "idle"
    /\ flow = "none"
    /\ flow' = "poll_result"
    /\ fpc' = "loop"
    /\ start_time' = now
    /\ poll_log' = [NoPolls EXCEPT !.called_at = now]
    /\ UNCHANGED <<poolVars, callVars, histVars, now, last_keepalive_time,
                   result, image_url, frames, flow_outcome, reqVars>>

\* One pass of poll_result's loop (lines 199-211): a poll, then the return,
\* the raise or the sleep.
PollResultIteration ==
    /\ flow = "poll_result"
    /\ fpc = "loop"
    /\ poll_loop_condition(now, start_time, PollTimeout)
    /\ \E resp \in StatusResponses, d \in 0..(MaxLag - poll_log.lag) :
        LET co == _get_token_and_headers(cookies, current_cookie_index)
            r == check_status(co, resp)
            status == r.result.status
        IN /\ Poll(resp, d, FALSE)
           /\ IF r.raised # "none"
              THEN /\ fpc' = "done"
                   /\ flow_outcome' = [kind |-> r.raised, value |-> Absent]
                   /\ now' = now + d
              ELSE IF status = "succeeded"
              THEN /\ fpc' = "done"
                   /\ flow_outcome' = [kind |-> "returned", value |-> r.result.output]
                   /\ now' = now + d
              ELSE IF status = "failed"
              THEN /\ fpc' = "done"
                   /\ flow_outcome' = [kind |-> "TaskFailed", value |-> r.result.error]
                   /\ now' = now + d
              ELSE /\ fpc' = "loop"
                   /\ flow_outcome' = flow_outcome
                   /\ now' = now + d + poll_sleep(status)
    /\ UNCHANGED <<flow, start_time, last_keepalive_time, image_url, frames,
                   reqVars>>

\* The loop ends without a return (line 213).
PollResultTimeout ==
    /\ flow = "poll_result"
    /\ fpc = "loop"
    /\ ~poll_loop_condition(now, start_time, PollTimeout)
    /\ fpc' = "done"
    /\ flow_outcome' = [kind |-> "PollingTimeout", value |-> Absent]
    /\ UNCHANGED <<poolVars, callVars, histVars, flow, now, start_time,
                   last_keepalive_time, result, image_url, frames, poll_log,
                   reqVars>>


\* -------------------------------------------------------- stream_generator

\* Python truthiness of a URL: None and "" are false.
Truthy(v) == v \notin {Absent, ""}

\* The public URL of an image stored in R2.
R2Url == "r2"

\* R2Uploader.upload_image_from_url (r2_uploader.py, lines 72-90): the URL it
\* returns, None when the upload itself fails.
upload_image_from_url(url, enabled, download_ok, upload_ok) ==
    IF ~enabled THEN url
    ELSE IF ~download_ok THEN url
    ELSE IF upload_ok THEN R2Url
    ELSE Absent

\* Mutant: whatever the uploader returned is used.
final_image_url_no_fallback(url, enabled, download_ok, upload_ok) ==
    IF enabled THEN upload_image_from_url(url, enabled, download_ok, upload_ok)
    ELSE url

\* main.py, lines 227-232: the URL the client is given for the backend's.
final_image_url(url, enabled, download_ok, upload_ok) ==
    LET uploaded_url == upload_image_from_url(url, enabled, download_ok, upload_ok)
    IN IF enabled /\ Truthy(uploaded_url) THEN uploaded_url ELSE url

\* How the uploader goes: disabled; enabled and the download fails; enabled
\* and the upload fails; enabled and the image is stored.
UploadCases ==
    {[enabled |-> FALSE, download_ok |-> FALSE, upload_ok |-> FALSE],
     [enabled |-> TRUE, download_ok |-> FALSE, upload_ok |-> FALSE],
     [enabled |-> TRUE, download_ok |-> TRUE, upload_ok |-> FALSE],
     [enabled |-> TRUE, download_ok |-> TRUE, upload_ok |-> TRUE]}

\* main.py, lines 227-232 and 252-256, with the uploader going as in c: the
\* uploader is called only when it is enabled.
Materialize(url, c) ==
    [made |-> TRUE, called |-> c.enabled, raw |-> url, enabled |-> c.enabled,
     download_ok |-> c.download_ok, upload_ok |-> c.upload_ok,
     returned |-> IF c.enabled
                  THEN upload_image_from_url(url, c.enabled, c.download_ok, c.upload_ok)
                  ELSE Absent,
     final |-> final_image_url(url, c.enabled, c.download_ok, c.upload_ok)]

\* The markdown "![image](url)".
ImageMarkup(url) == [kind |-> "image", arg |-> url]
NoMarkup == [kind |-> "none", arg |-> Absent]

\* The responses of chat_completions: the completion with the image (lines
\* 260-280), the StreamingResponse (line 246) and HTTPException(500) with
\* str(e) as detail (lines 282-284).
SuccessResponse(url) ==
    [status |-> 200, shape |-> "completion", content |-> ImageMarkup(url),
     detail |-> [kind |-> "none", arg |-> Absent]]
StreamResponse ==
    [status |-> 200, shape |-> "stream", content |-> NoMarkup,
     detail |-> [kind |-> "none", arg |-> Absent]]
\* Mutant: a failure is answered with a completion that carries the error text.
error_as_completion(kind, arg) ==
    [status |-> 200, shape |-> "completion", content |-> [kind |-> kind, arg |-> arg],
     detail |-> [kind |-> "none", arg |-> Absent]]

ServerError(kind, arg) ==
    [status |-> 500, shape |-> "server_error", content |-> NoMarkup,
     detail |-> [kind |-> kind, arg |-> arg]]

\* The chunks of the stream: the first carries the role, a heartbeat is a
\* content chunk of one space, the terminal one has an empty delta and
\* finish_reason "stop", and the last line is "[DONE]".
RoleOpenFrame == [type |-> "role_open", kind |-> Absent, arg |-> Absent]
HeartbeatFrame == [type |-> "heartbeat", kind |-> Absent, arg |-> Absent]
ErrorFrame(msg) == [type |-> "content", kind |-> "error", arg |-> msg]
TimeoutFrame == [type |-> "content", kind |-> "error", arg |-> "Timeout"]
ImageFrame(url) == [type |-> "content", kind |-> "image", arg |-> url]
TerminalFrame == [type |-> "terminal", kind |-> Absent, arg |-> Absent]
DoneFrame == [type |-> "done", kind |-> Absent, arg |-> Absent]

\* Mutant: the stream gives up one sleep before its cap.
stream_timed_out_early(t, start) == t - start >= StreamTimeout - StreamInterval

\* main.py, line 212: "if time.time() - start_time > 300".
stream_timed_out(t, start) == t - start > StreamTimeout

\* Mutant: the end marker is left out.
closing_frames_no_done == <<TerminalFrame>>

\* main.py, lines 241-244: the chunk with finish_reason "stop", then "[DONE]".
closing_frames == <<TerminalFrame, DoneFrame>>

\* Mutant: the keep-alive waits for more than one further sleep.
keepalive_due_late(t, last) == t - last > KeepAliveInterval + StreamInterval

\* main.py, line 218: "if time.time() - last_keepalive_time >= 10".
keepalive_due(t, last) == t - last >= KeepAliveInterval

\* stream_generator up to its loop (lines 174-190).
StreamStart ==
    /\ pc = "idle"
    /\ flow = "none"
    /\ flow' = "stream"
    /\ fpc' = "loop"
    /\ frames' = <<RoleOpenFrame>>
    /\ start_time' = now
    /\ last_keepalive_time' = now
    /\ image_url' = Absent
    /\ poll_log' = [NoPolls EXCEPT !.called_at = now, !.beat_at = now]
    /\ http_response' = StreamResponse
    /\ UNCHANGED <<poolVars, callVars, histVars, now, result, flow_outcome,
                   request, upload_log, peer, seeding,
                   extraction>>

\* One pass of the stream's loop (lines 192-223): a poll, then the break or
\* the heartbeat and the sleep.
StreamIteration ==
    /\ flow = "stream"
    /\ fpc = "loop"
    /\ \E resp \in StatusResponses, d \in 0..(MaxLag - poll_log.lag) :
        LET co == _get_token_and_headers(cookies, current_cookie_index)
            r == check_status(co, resp)
            status == r.result.status
            t == now + d
            beat == /\ r.raised = "none"
                    /\ status \notin {"succeeded", "failed"}
                    /\ ~stream_timed_out(t, start_time)
                    /\ keepalive_due(t, last_keepalive_time)
        IN /\ Poll(resp, d, beat)
           /\ IF r.raised # "none"
              THEN /\ fpc' = "done"
                   /\ flow_outcome' = [kind |-> r.raised, value |-> Absent]
                   /\ now' = t
                   /\ UNCHANGED <<image_url, frames, last_keepalive_time>>
              ELSE IF status = "succeeded"
              THEN /\ fpc' = "finish"
                   /\ image_url' = r.result.output
                   /\ now' = t
                   /\ UNCHANGED <<frames, last_keepalive_time, flow_outcome>>
              ELSE IF status = "failed"
              THEN /\ fpc' = "finish"
                   /\ frames' = Append(frames, ErrorFrame(r.result.error))
                   /\ now' = t
                   /\ UNCHANGED <<image_url, last_keepalive_time, flow_outcome>>
              ELSE IF stream_timed_out(t, start_time)
              THEN /\ fpc' = "finish"
                   /\ frames' = Append(frames, TimeoutFrame)
                   /\ now' = t
                   /\ UNCHANGED <<image_url, last_keepalive_time, flow_outcome>>
              ELSE /\ fpc' = "loop"
                   /\ IF beat
                      THEN /\ frames' = Append(frames, HeartbeatFrame)
                           /\ last_keepalive_time' = t
                      ELSE UNCHANGED <<frames, last_keepalive_time>>
                   /\ now' = t + StreamInterval
                   /\ UNCHANGED <<image_url, flow_outcome>>
    /\ UNCHANGED <<flow, start_time, reqVars>>

\* After the loop (lines 225-244): the image, if there is one, the terminal
\* chunk and the end marker.
StreamFinish ==
    /\ flow = "stream"
    /\ fpc = "finish"
    /\ fpc' = "done"
    /\ flow_outcome' = [kind |-> "streamed", value |-> Absent]
    /\ IF Truthy(image_url)
       THEN \E c \in UploadCases :
                /\ upload_log' = Materialize(image_url, c)
                /\ frames' = Append(frames, ImageFrame(upload_log'.final))
                                \o closing_frames
       ELSE /\ frames' = frames \o closing_frames
            /\ UNCHANGED upload_log
    /\ UNCHANGED <<poolVars, callVars, histVars, flow, now, start_time,
                   last_keepalive_time, result, image_url, poll_log,
                   request, http_response, peer, seeding,
                   extraction>>

\* The handler after poll_result (lines 249-284): the completion with the
\* materialized image, or the server error for what poll_result raised. A
\* URL that is empty or None cannot be downloaded.
CompletionRespond ==
    /\ flow = "poll_result"
    /\ fpc = "done"
    /\ http_response = NoHttpResponse
    /\ IF flow_outcome.kind = "returned"
       THEN \E c \in UploadCases :
                /\ c.download_ok => Truthy(flow_outcome.value)
                /\ upload_log' = Materialize(flow_outcome.value, c)
                /\ http_response' = SuccessResponse(upload_log'.final)
       ELSE /\ http_response' = ServerError(flow_outcome.kind, flow_outcome.value)
            /\ UNCHANGED upload_log
    /\ UNCHANGED <<poolVars, callVars, histVars, flowVars, request, peer, seeding,
                   extraction>>

\* The pools that a polling starts with.
PollCookies == {cks \in ConfiguredCookies : Len(cks) <= MaxPollPool}

PollInit == \E cks \in PollCookies : InitClient(cks) /\ InitFlow /\ InitRequest

PollNext ==
    \/ PollResultStart
    \/ PollResultIteration
    \/ PollResultTimeout
    \/ StreamStart
    \/ StreamIteration
    \/ StreamFinish
    \/ CompletionRespond

StreamNext ==
    \/ StreamStart
    \/ StreamIteration
    \/ StreamFinish

StreamStep == StreamIteration \/ StreamFinish

\* One stream. The event loop resumes the generator after each sleep and the
\* client keeps reading, so once started it runs on.
StreamSpec == PollInit /\ [][StreamNext]_vars /\ WF_vars(StreamStep)

\* One task polled to its end, by poll_result or by the stream.
PollSpec == PollInit /\ [][PollNext]_vars

PollResultNext ==
    \/ PollResultStart
    \/ PollResultIteration
    \/ PollResultTimeout

PollResultStep == PollResultIteration \/ PollResultTimeout

\* One poll_result call. The call blocks its thread until it returns, so once
\* it has started it runs on.
PollResultSpec == PollInit /\ [][PollResultNext]_vars /\ WF_vars(PollResultStep)

\* -------------------------------------------------------- chat_completions

\* A request arrives (lines 85-93): the debug dump of its messages, then the
\* prompt. Either can raise, and the handler's "except Exception" answers
\* with a server error, for the HTTPException(400) of a missing prompt too.
RequestStart ==
    /\ request.phase = "none"
    /\ pc = "idle"
    /\ flow = "none"
    /\ http_response = NoHttpResponse
    /\ \E stream \in BOOLEAN, dump_ok \in BOOLEAN, has_prompt \in BOOLEAN :
        IF ~dump_ok
        THEN /\ request' = [phase |-> "rejected", stream |-> stream]
             /\ http_response' = ServerError("FileNotFoundError", Absent)
        ELSE IF ~has_prompt
        THEN /\ request' = [phase |-> "rejected", stream |-> stream]
             /\ http_response' = ServerError("NoPrompt", "No prompt found in messages")
        ELSE /\ request' = [phase |-> "accepted", stream |-> stream]
             /\ UNCHANGED http_response
    /\ UNCHANGED <<poolVars, callVars, histVars, flowVars, upload_log, peer,
                   seeding, extraction>>

\* The handler calls create_task (line 161).
RequestSubmit ==
    /\ request.phase = "accepted"
    /\ CreateTaskStart

\* create_task is back (lines 161-172): with a task id, or with the exception
\* that the handler answers with a server error.
RequestAfterSubmit ==
    /\ request.phase = "accepted"
    /\ CreateTaskReturn
    /\ IF outcome.kind = "returned"
       THEN /\ request' = [request EXCEPT !.phase = "created"]
            /\ UNCHANGED http_response
       ELSE /\ request' = [request EXCEPT !.phase = "rejected"]
            /\ http_response' = ServerError(outcome.kind, outcome.last_error)
    /\ UNCHANGED <<upload_log, peer, seeding,
                   extraction>>

\* Not streaming: the handler calls poll_result (line 249).
RequestPoll ==
    /\ request.phase = "created"
    /\ ~request.stream
    /\ PollResultStart

\* Streaming: the StreamingResponse starts the generator (line 246).
RequestStream ==
    /\ request.phase = "created"
    /\ request.stream
    /\ StreamStart

RequestNext ==
    \/ RequestStart
    \/ RequestSubmit
    \/ CreateTaskAttempt
    \/ CreateTaskExhausted
    \/ RequestAfterSubmit
    \/ RequestPoll
    \/ PollResultIteration
    \/ PollResultTimeout
    \/ CompletionRespond
    \/ RequestStream
    \/ StreamIteration
    \/ StreamFinish

\* One request served from its arrival to its response.
RequestSpec == PollInit /\ [][RequestNext]_vars

\* ---------------------------------------------------------- the event loop

\* chat_completions is a coroutine and FastAPI runs it on the event loop's
\* thread. stream_generator gives the loop back at its yields and at
\* "await asyncio.sleep"; the non-streaming path has no await, so from its
\* call of poll_result to its return, time.sleep included, the thread runs
\* nothing else.

\* While this stream is suspended, the handler of another, non-streaming
\* request reaches poll_result (line 249).
PeerStart ==
    /\ peer.phase = "none"
    /\ flow = "stream"
    /\ fpc = "loop"
    /\ peer' = [phase |-> "polling", polls |-> 0, held |-> 0]
    /\ UNCHANGED <<poolVars, callVars, histVars, flowVars, request,
                   http_response, upload_log, seeding,
                   extraction>>

\* One pass of the peer's loop (wavespeed_client.py, lines 199-211): a
\* check_status, then the return or raise that ends the call, or
\* time.sleep(2).
PeerPass ==
    /\ peer.phase = "polling"
    /\ LET co == _get_token_and_headers(cookies, current_cookie_index)
       IN /\ current_cookie_index' = co.index
          /\ checkout_log' = LogCheckout(cookies, co)
          /\ recent' = IF co.raised = "none"
                       THEN Remember(recent, cookies, cookies, co.token)
                       ELSE recent
    /\ \E ends \in BOOLEAN :
        /\ ~ends => peer.polls < MaxPeerPolls
        /\ IF ends
           THEN /\ peer' = [peer EXCEPT !.phase = "done", !.polls = @ + 1]
                /\ UNCHANGED now
           ELSE /\ peer' = [peer EXCEPT !.polls = @ + 1,
                                        !.held = @ + poll_sleep("pending")]
                /\ now' = now + poll_sleep("pending")
    /\ UNCHANGED <<cookies, token_failure_counts, callVars, streak, evicted,
                   call_log, flow, fpc, start_time, last_keepalive_time,
                   result, image_url, frames, flow_outcome, poll_log,
                   request, http_response, upload_log, seeding,
                   extraction>>

\* The generator runs when the event loop's thread is free. The stream is
\* followed for MaxSharedTime seconds.
LoopStreamIteration ==
    /\ peer.phase # "polling"
    /\ now - start_time <= MaxSharedTime
    /\ StreamIteration

LoopStreamFinish ==
    /\ peer.phase # "polling"
    /\ StreamFinish

ConcurrentNext ==
    \/ StreamStart
    \/ LoopStreamIteration
    \/ LoopStreamFinish
    \/ PeerStart
    \/ PeerPass

\* A stream and a non-streaming request served by the same event loop.
ConcurrentSpec == PollInit /\ [][ConcurrentNext]_vars

\* ------------------------------------------------------------- the seed

\* The texts that a <seed:...> tag of the prompt can carry.
SeedTexts ==
    { <<"0">>, <<"4", "2">>, <<"-", "1">>, <<"-", "0">>, <<"+", "5">>,
      <<"0", "0", "7">>, <<" ", "7", " ">>, <<" ">>, <<"a">>,
      <<"1", ".", "5">>,
      <<"2", "1", "4", "7", "4", "8", "3", "6", "4", "7">>,
      <<"2", "1", "4", "7", "4", "8", "3", "6", "4", "8">>,
      <<"9", "9", "9", "9", "9", "9", "9", "9", "9", "9", "9">> }

\* The seed tags of a prompt, in their order.
SeedPrompts == UNION {[1..n -> SeedTexts] : n \in 0..MaxSeedTags}

DigitChars == <<"0", "1", "2", "3", "4", "5", "6", "7", "8", "9">>

IsDigit(c) == \E i \in 1..10 : DigitChars[i] = c

DigitOf(c) == (CHOOSE i \in 1..10 : DigitChars[i] = c) - 1

RECURSIVE lstrip(_)
lstrip(s) == IF s # <<>> /\ Head(s) = " " THEN lstrip(Tail(s)) ELSE s

RECURSIVE rstrip(_)
rstrip(s) ==
    IF s # <<>> /\ s[Len(s)] = " " THEN rstrip(SubSeq(s, 1, Len(s) - 1)) ELSE s

\* str.strip().
strip(s) == rstrip(lstrip(s))

RECURSIVE StripZeros(_)
StripZeros(ds) ==
    IF Len(ds) > 1 /\ Head(ds) = 0 THEN StripZeros(Tail(ds)) ELSE ds

\* Python's int(text) for a text of these characters: blanks around, an
\* optional sign, one or more digits; anything else is a ValueError.
py_int(text) ==
    LET t == strip(text)
        signed == t # <<>> /\ Head(t) \in {"+", "-"}
        body == IF signed THEN Tail(t) ELSE t
        ds == StripZeros([i \in 1..Len(body) |-> DigitOf(body[i])])
    IN IF body # <<>> /\ \A i \in 1..Len(body) : IsDigit(body[i])
       THEN [ok |-> TRUE,
             value |-> [none |-> FALSE,
                        neg |-> signed /\ Head(t) = "-" /\ ds # <<0>>,
                        digits |-> ds]]
       ELSE [ok |-> FALSE, value |-> NoneSeed]

\* utils.py, lines 69-81, for a seed tag: the stripped value through int(),
\* kept in params; a value that is no integer leaves params as it was.
param_replace_callback(params_seed, value) ==
    LET r == py_int(strip(value))
    IN IF r.ok THEN r.value ELSE params_seed

\* re.sub over the prompt (utils.py, line 83) calls the callback for each
\* tag from left to right; main.py, line 116, reads params.get("seed").
RECURSIVE extract_params_from_prompt(_, _)
extract_params_from_prompt(tags, params_seed) ==
    IF tags = <<>>
    THEN params_seed
    ELSE extract_params_from_prompt(Tail(tags),
                                    param_replace_callback(params_seed, Head(tags)))

\* 2147483647, the upper end of random.randint (wavespeed_client.py, line 71).
Int32MaxDigits == <<2, 1, 4, 7, 4, 8, 3, 6, 4, 7>>

\* a <= b for two sequences of digits without leading zeros.
DigitsLeq(a, b) ==
    \/ Len(a) < Len(b)
    \/ /\ Len(a) = Len(b)
       /\ \/ a = b
          \/ \E i \in 1..Len(a) :
                /\ a[i] < b[i]
                /\ \A j \in 1..(i - 1) : a[j] = b[j]

\* 0 <= seed <= 2147483647.
InInt32(seed) ==
    /\ ~seed.none
    /\ ~seed.neg
    /\ DigitsLeq(seed.digits, Int32MaxDigits)

\* Values that random.randint(0, 2147483647) can return.
randint_values == { <<0>>, <<4, 2>>, Int32MaxDigits }

\* wavespeed_client.py, line 70: "if seed is None or seed < 0".
seed_is_replaced(seed) == seed.none \/ seed.neg

\* The handler extracts the parameters of the prompt (main.py, lines 96, 116).
ExtractParams ==
    /\ seeding.pc = "prompt"
    /\ seeding' = [seeding EXCEPT
                        !.pc = "extracted",
                        !.params = extract_params_from_prompt(seeding.tags, NoneSeed)]
    /\ UNCHANGED <<poolVars, callVars, histVars, flowVars, request,
                   http_response, upload_log, peer, extraction>>

\* create_task puts the seed in the payload (wavespeed_client.py, lines 69-78).
PayloadSeed ==
    /\ seeding.pc = "extracted"
    /\ \E r \in randint_values :
        seeding' = [seeding EXCEPT
                        !.pc = "submitted",
                        !.payload = IF seed_is_replaced(seeding.params)
                                    THEN [none |-> FALSE, neg |-> FALSE, digits |-> r]
                                    ELSE seeding.params]
    /\ UNCHANGED <<poolVars, callVars, histVars, flowVars, request,
                   http_response, upload_log, peer, extraction>>

SeedInit ==
    /\ \E cks \in PollCookies : InitClient(cks)
    /\ InitFlow
    /\ request = NoRequest
    /\ http_response = NoHttpResponse
    /\ upload_log = NoUpload
    /\ peer = NoPeer
    /\ \E tags \in SeedPrompts :
        seeding = [pc |-> "prompt", tags |-> tags, params |-> NoneSeed,
                   payload |-> NoneSeed]
    /\ extraction = NoExtraction

SeedNext ==
    \/ ExtractParams
    \/ PayloadSeed

\* The seed of one request, from the prompt to the submitted payload.
SeedSpec == SeedInit /\ [][SeedNext]_vars

\* --------------------------------------------------- the prompt's tags

\* Pieces of text that prompts are put together from: plain text, blanks,
\* whole tags and the halves of tags.
PromptPieces ==
    { <<"a">>,
      <<" ">>,
      <<"<">>,
      <<">">>,
      <<":">>,
      <<"<", "a", ":", "b", ">">>,
      <<"<", "s", "e", "e", "d", ":", "5", ">">>,
      <<"s", "e", "e", "d", ":", "5", ">">>,
      <<"<", "S", "e", "e", "d", ":", " ", "7", " ", ">">>,
      <<"<", "s", "e", "e", "d", ":", "x", ">">>,
      <<"<", "l", "o", "r", "a", ":", "u", ">">>,
      <<"<", "l", "o", "r", "a", ":", "u", ":", "2", ".", "5", ">">>,
      <<"<", "l", "o", "r", "a", ":", "u", ":", ".", ">">>,
      <<"l", "o", "r", "a", ":", "u", ">">>,
      <<"<", "w", "i", "d", "t", "h", ":", "9", ">">>,
      <<"<", "o", "u", "t", "p", "u", "t", "_", "f", "o", "r", "m", "a", "t", ":", "p", "n", "g", ">">> }

RECURSIVE Flatten(_)
Flatten(ps) == IF ps = <<>> THEN <<>> ELSE Head(ps) \o Flatten(Tail(ps))

\* The prompts: up to MaxPieces pieces in a row.
Prompts == {Flatten(ps) : ps \in UNION {[1..n -> PromptPieces] : n \in 0..MaxPieces}}

\* What the patterns tell apart: "\w" is a letter or a digit, "[\d.]" a digit
\* or the dot.
WordChars == {"a", "b", "d", "e", "f", "g", "h", "i", "l", "m", "n", "o", "p",
              "r", "s", "S", "t", "u", "w", "x", "_", "2", "5", "7", "9"}

ScaleChars == {"2", "5", "7", "9", "."}

\* str.lower() on these characters.
lower(s) == [i \in 1..Len(s) |-> IF s[i] = "S" THEN "s" ELSE s[i]]

\* The first ">" at or after position i, 0 if there is none.
FirstGt(s, i) ==
    IF \E j \in i..Len(s) : s[j] = ">"
    THEN CHOOSE j \in i..Len(s) : s[j] = ">" /\ \A k \in i..(j - 1) : s[k] # ">"
    ELSE 0

LoraPrefix == <<"<", "l", "o", "r", "a", ":">>

\* lora_pattern (utils.py, line 46) tried at position i: "<lora:", one or
\* more characters other than ">", then ">". The position of that ">", 0 if
\* the pattern does not match here.
lora_match(s, i) ==
    IF i + 5 <= Len(s) /\ SubSeq(s, i, i + 5) = LoraPrefix
    THEN LET j == FirstGt(s, i + 6)
         IN IF j > i + 6 THEN j ELSE 0
    ELSE 0

\* The groups of lora_pattern for the text c between "<lora:" and ">": the
\* lazy first group stops at the first ":" that only digits and dots follow.
LoraSplits(c) ==
    {k \in 1..(Len(c) - 2) :
        /\ c[k + 1] = ":"
        /\ \A m \in (k + 2)..Len(c) : c[m] \in ScaleChars}

\* float(text) for a text of digits and dots: at most one dot and at least
\* one digit, else ValueError. The value is kept as the digits before and
\* after the dot.
py_float(text) ==
    LET dots == {i \in 1..Len(text) : text[i] = "."}
        dot == IF dots = {} THEN Len(text) + 1 ELSE CHOOSE i \in dots : TRUE
    IN IF Cardinality(dots) <= 1 /\ Len(text) > Cardinality(dots)
       THEN [ok |-> TRUE, whole |-> SubSeq(text, 1, dot - 1),
             frac |-> SubSeq(text, dot + 1, Len(text))]
       ELSE [ok |-> FALSE, whole |-> <<>>, frac |-> <<>>]

\* The scale 1.0 of a tag without a scale, or with one that is no number.
DefaultScale == [whole |-> <<"1">>, frac |-> <<"0">>]

\* utils.py, lines 48-60.
lora_replace_callback(c) ==
    LET ks == LoraSplits(c)
        k == IF ks = {} THEN Len(c) ELSE CHOOSE x \in ks : \A y \in ks : x <= y
        f == py_float(SubSeq(c, k + 2, Len(c)))
    IN [path |-> SubSeq(c, 1, k),
        scale |-> IF ks # {} /\ f.ok
                  THEN [whole |-> f.whole, frac |-> f.frac]
                  ELSE DefaultScale]

\* re.sub(lora_pattern, lora_replace_callback, prompt) (line 62): the text
\* is scanned from left to right, a match is taken out and the scan goes on
\* after it; what was taken out is not scanned again.
RECURSIVE lora_sub(_, _, _, _)
lora_sub(s, i, out, loras) ==
    IF i > Len(s)
    THEN [text |-> out, loras |-> loras]
    ELSE LET j == lora_match(s, i)
         IN IF j > 0
            THEN lora_sub(s, j + 1, out,
                          Append(loras, lora_replace_callback(SubSeq(s, i + 6, j - 1))))
            ELSE lora_sub(s, i + 1, Append(out, s[i]), loras)

\* The word characters in a row from position i on.
RECURSIVE WordRun(_, _)
WordRun(s, i) ==
    IF i <= Len(s) /\ s[i] \in WordChars THEN 1 + WordRun(s, i + 1) ELSE 0

\* param_pattern (line 67) tried at position i: "<", a word, ":", one or
\* more characters other than ">", then ">". The key's length and the
\* position of the ">", 0 if the pattern does not match here.
param_match(s, i) ==
    LET k == WordRun(s, i + 1)
        j == FirstGt(s, i + k + 2)
    IN IF /\ s[i] = "<"
          /\ k >= 1
          /\ i + k + 1 <= Len(s)
          /\ s[i + k + 1] = ":"
          /\ j > i + k + 2
       THEN [key |-> k, end |-> j]
       ELSE [key |-> 0, end |-> 0]

KeyHeight == <<"h", "e", "i", "g", "h", "t">>
KeyWidth == <<"w", "i", "d", "t", "h">>
KeySeed == <<"s", "e", "e", "d">>
KeyOutputFormat == <<"o", "u", "t", "p", "u", "t", "_", "f", "o", "r", "m", "a", "t">>

\* utils.py, lines 69-81, for any key.
param_replace(params, k, v) ==
    LET key == lower(k)
        value == strip(v)
    IN IF key = KeyHeight
       THEN [params EXCEPT !.height = param_replace_callback(@, v)]
       ELSE IF key = KeyWidth
       THEN [params EXCEPT !.width = param_replace_callback(@, v)]
       ELSE IF key = KeySeed
       THEN [params EXCEPT !.seed = param_replace_callback(@, v)]
       ELSE IF key = KeyOutputFormat
       THEN [params EXCEPT !.output_format = [none |-> FALSE, text |-> value]]
       ELSE params

\* re.sub(param_pattern, param_replace_callback, prompt) (line 83).
RECURSIVE param_sub(_, _, _, _)
param_sub(s, i, out, params) ==
    IF i > Len(s)
    THEN [text |-> out, params |-> params]
    ELSE LET m == param_match(s, i)
         IN IF m.end > 0
            THEN param_sub(s, m.end + 1, out,
                           param_replace(params, SubSeq(s, i + 1, i + m.key),
                                         SubSeq(s, i + m.key + 2, m.end - 1)))
            ELSE param_sub(s, i + 1, Append(out, s[i]), params)

\* re.sub(r'\s+', ' ', prompt) (line 86): a run of blanks becomes one blank.
RECURSIVE collapse_blanks(_)
collapse_blanks(s) ==
    IF s = <<>>
    THEN <<>>
    ELSE IF Head(s) = " " /\ Len(s) > 1 /\ s[2] = " "
    THEN collapse_blanks(Tail(s))
    ELSE <<Head(s)>> \o collapse_blanks(Tail(s))

\* extract_params_from_prompt on the whole text (utils.py, lines 28-88).
extract_from_text(prompt) ==
    LET l == lora_sub(prompt, 1, <<>>, <<>>)
        q == param_sub(l.text, 1, <<>>, NoParams)
    IN [cleaned |-> strip(collapse_blanks(q.text)), loras |-> l.loras,
        params |-> q.params]

\* A prompt goes through extract_params_from_prompt.
ExtractFromPrompt ==
    /\ extraction.pc = "prompt"
    /\ extraction' = [extraction EXCEPT
                            !.pc = "extracted",
                            !.first = extract_from_text(extraction.prompt)]
    /\ UNCHANGED <<poolVars, callVars, histVars, flowVars, request,
                   http_response, upload_log, peer, seeding>>

\* Its cleaned prompt goes through extract_params_from_prompt again.
ExtractFromCleaned ==
    /\ extraction.pc = "extracted"
    /\ extraction' = [extraction EXCEPT
                            !.pc = "reparsed",
                            !.second = extract_from_text(extraction.first.cleaned)]
    /\ UNCHANGED <<poolVars, callVars, histVars, flowVars, request,
                   http_response, upload_log, peer, seeding>>

ExtractInit ==
    /\ InitClient(<<>>)
    /\ InitFlow
    /\ request = NoRequest
    /\ http_response = NoHttpResponse
    /\ upload_log = NoUpload
    /\ peer = NoPeer
    /\ seeding = NoSeeding
    /\ \E p \in Prompts :
        extraction = [pc |-> "prompt", prompt |-> p, first |-> NoExtracted,
                      second |-> NoExtracted]

ExtractNext ==
    \/ ExtractFromPrompt
    \/ ExtractFromCleaned

\* One prompt, parsed and parsed again.
ExtractSpec == ExtractInit /\ [][ExtractNext]_vars

Next ==
    \/ CreateTaskStart
    \/ CreateTaskAttempt
    \/ CreateTaskExhausted
    \/ CreateTaskDone
    \/ CheckStatus

Spec == Init /\ [][Next]_vars

\* The client configured with cookies that are all different.
DistinctInit == Init /\ Cardinality(Range(cookies)) = Len(cookies)

DistinctSpec == DistinctInit /\ [][Next]_vars

\* The running loop takes its next pass, and the raise after it, in finite
\* time: requests.post returns or raises.
CreateTaskStep == CreateTaskAttempt \/ CreateTaskExhausted \/ CreateTaskDone

FairSpec == Spec /\ WF_vars(CreateTaskStep)

\* ------------------------------------------------------------------ claims

Distinct(s) == Cardinality(Range(s)) = Len(s)

\* C1: in a pool of N >= 1 distinct cookies, the checkouts made since the
\* last removal, up to N of them, whether they come from submissions or from
\* status polls, are the cookies that cyclically precede the cursor, in
\* insertion order: N consecutive checkouts return each cookie exactly once,
\* starting from the cursor.
C1_RoundRobin ==
    LET n == Len(cookies)
        k == Len(recent)
    IN (n >= 1 /\ Distinct(cookies) /\ k >= 1) =>
        /\ k <= n
        /\ current_cookie_index \in 0..(n - 1)
        /\ \A i \in 1..k :
            recent[i] = cookies[((current_cookie_index + n - k + i - 1) % n) + 1]
        /\ \A i, j \in 1..k : i # j => recent[i] # recent[j]

C1_Witness ==
    /\ Len(cookies) = 3
    /\ Distinct(cookies)
    /\ Len(recent) = 3
    /\ current_cookie_index = 1
    /\ pc = "loop"

\* C2: a cookie with 3 insufficient-credits reports and no successful
\* submission in between has been removed, a removed cookie is not in the
\* active list (so no later checkout returns it), and the failure counter
\* counts the reports since the cookie's last successful submission.
C2_Eviction ==
    \A t \in Tokens :
        /\ token_failure_counts[t] = streak[t]
        /\ streak[t] >= 3 => t \in evicted
        /\ t \in evicted => t \notin Range(cookies)

\* C3: a checkout made on an empty active list raises the no-cookies error,
\* returns no cookie and raises nothing else.
C3_EmptyPool ==
    (checkout_log.made /\ checkout_log.size = 0) =>
        /\ checkout_log.raised = "NoCookies"
        /\ checkout_log.token = Absent

C3_Witness ==
    /\ checkout_log.made
    /\ checkout_log.size = 0
    /\ evicted # {}
    /\ cookies = <<>>

\* C4 as claimed: with a pool of at least one cookie, after k < max_attempts
\* attempts that were all answered "insufficient credits" the call has not
\* given up (its attempt k+1 is still to come); when attempt k+1 is answered
\* with a task id the call returns that id; and a cookie the call removed
\* received at least 3 of the call's insufficient-credits responses.
C4_Original ==
    (pc \in {"loop", "done"} /\ call_log.size >= 1) =>
        /\ (call_log.pattern = "insufficient" /\ attempts < max_attempts) =>
                pc = "loop"
        /\ call_log.pattern = "then_success" =>
                /\ outcome.kind = "returned"
                /\ outcome.task_id = call_log.response.id
        /\ call_log.pattern \in {"insufficient", "then_success"} =>
                \A t \in call_log.removed : call_log.reports[t] >= 3

\* C4 as amended, the state part: after k < max_attempts attempts that were
\* all answered "insufficient credits", the call goes on to attempt k+1 while
\* the pool still holds a cookie, and has raised the exhausted error, after
\* those k attempts, only when they emptied the pool; when attempt k+1 is
\* answered with a task id the call returns that id.
C4_RetryState ==
    (pc \in {"loop", "done"} /\ call_log.size >= 1) =>
        /\ (call_log.pattern = "insufficient" /\ attempts < max_attempts) =>
                \/ /\ pc = "loop"
                   /\ cookies # <<>> => loop_condition(attempts, max_attempts, cookies)
                \/ /\ pc = "done"
                   /\ cookies = <<>>
                   /\ outcome.kind = "SubmissionExhausted"
                   /\ outcome.attempts = attempts
        /\ call_log.pattern = "then_success" =>
                /\ pc = "done"
                /\ outcome.kind = "returned"
                /\ outcome.task_id = call_log.response.id
                /\ outcome.task_id \in TaskIds

\* C4 as amended, the step part: a step removes a cookie only when that
\* cookie's insufficient-credits reports since its last successful
\* submission, earlier calls included, have reached 3, and it removes one
\* occurrence of that cookie alone.
C4_RetryStep ==
    cookies' # cookies =>
        /\ streak'[checkout_log'.token] >= 3
        /\ cookies' = ListRemove(cookies, checkout_log'.token)

\* C4 as amended.
C4_Retry == [](C4_RetryState) /\ [][C4_RetryStep]_vars

C4_Witness ==
    /\ call_log.pattern = "then_success"
    /\ call_log.size = 2
    /\ outcome.attempts = 4
    /\ call_log.removed # {}
    /\ outcome.kind = "returned"

\* A success status whose body gives no task id.
CarriesNoTaskId(resp) ==
    /\ resp.sent
    /\ resp.status_code = 200
    /\ (~resp.is_json \/ resp.id = Absent)

\* C5 as claimed: once an attempt got a success response without a task id,
\* the call has ended with the malformed-response error, right after that
\* attempt.
C5_Original ==
    (pc \in {"loop", "done"} /\ CarriesNoTaskId(call_log.response)) =>
        /\ pc = "done"
        /\ outcome.kind = "MalformedResponse"
        /\ outcome.attempts = call_log.posts

\* C5 as amended: an attempt that got a success response without a task id
\* resets the cookie's failure counter, records the error as the last error
\* and goes back to the loop test; the call ends for it only by exhausting
\* its attempts, with the exhausted error that carries it as the last error.
C5_NoTaskId ==
    (pc \in {"loop", "done"} /\ CarriesNoTaskId(call_log.response)) =>
        /\ last_error \in {"NoTaskId", "JSONDecodeError"}
        /\ token_failure_counts[checkout_log.token] = 0
        /\ call_log.posts = attempts
        /\ \/ pc = "loop"
           \/ /\ pc = "done"
              /\ ~loop_condition(attempts, max_attempts, cookies)
              /\ outcome.kind = "SubmissionExhausted"
              /\ outcome.last_error = last_error
              /\ outcome.attempts = attempts

C5_Witness ==
    /\ pc = "loop"
    /\ CarriesNoTaskId(call_log.response)
    /\ call_log.response.is_json
    /\ attempts = 2
    /\ evicted = {}
    /\ token_failure_counts[checkout_log.token] = 0
    /\ \E t \in Tokens : token_failure_counts[t] = 1

\* C6, the state part: the attempt budget is max(2 * pool size, 5) for the
\* pool size at the start of the call, however the pool shrinks afterwards;
\* the call never makes more attempts than that; every attempt made one
\* checkout and one post; and a call that ends without a task id raises the
\* exhausted error, with the budget used up or the pool empty, reporting the
\* number of attempts made.
C6_Budget ==
    pc \in {"loop", "done"} =>
        /\ max_attempts = (IF 2 * call_log.size >= 5 THEN 2 * call_log.size ELSE 5)
        /\ attempts <= max_attempts
        /\ call_log.checkouts = attempts
        /\ call_log.posts = attempts
        /\ pc = "done" =>
            /\ outcome.kind \in {"returned", "SubmissionExhausted"}
            /\ outcome.kind = "returned" => outcome.task_id \in TaskIds
            /\ outcome.kind = "SubmissionExhausted" =>
                /\ outcome.attempts = call_log.posts
                /\ attempts = max_attempts \/ cookies = <<>>

\* C6: create_task always terminates, within its budget.
C6_Terminates ==
    /\ [](C6_Budget)
    /\ (pc = "loop") ~> (pc = "done")

C6_Witness ==
    /\ pc = "done"
    /\ outcome.kind = "SubmissionExhausted"
    /\ call_log.size = 3
    /\ Len(cookies) = 1
    /\ outcome.attempts = 6

\* A post that failed otherwise than by HTTP 400 with the marker: no
\* response, another error status, or a 400 without the marker.
OtherFailure(resp) ==
    \/ ~resp.sent
    \/ /\ resp.status_code >= 400
       /\ ~(resp.status_code = 400 /\ resp.is_json
            /\ resp.message = "Insufficient credits")

\* C7: an attempt whose post fails otherwise than by insufficient credits
\* leaves the failure counters and the active list as they were, records the
\* error and goes back to the loop test instead of raising, with the cursor on
\* the cookie after the one it used.
C7_Step ==
    (pc = "loop" /\ attempts' = attempts + 1 /\ OtherFailure(call_log'.response)) =>
        /\ cookies' = cookies
        /\ token_failure_counts' = token_failure_counts
        /\ pc' = "loop"
        /\ outcome' = outcome
        /\ last_error' \in {"ConnectionError", "HTTPError"}
        /\ checkout_log'.token = cookies[(current_cookie_index % Len(cookies)) + 1]
        /\ current_cookie_index' = ((current_cookie_index % Len(cookies)) + 1) % Len(cookies)

C7_OtherFailure == [][C7_Step]_vars

C7_Witness ==
    /\ pc = "loop"
    /\ attempts = 2
    /\ call_log.response.status_code = 400
    /\ OtherFailure(call_log.response)
    /\ last_error = "HTTPError"
    /\ token_failure_counts[checkout_log.token] = 1
    /\ Len(cookies) = 2

\* ---------------------------------------------------------------- polling

\* A response for which check_status has no task fields to read: the request
\* failed, the status is an error, or the body is not a JSON object with them.
TransportFailure(resp) ==
    ~resp.sent \/ ~resp.http_ok \/ ~resp.is_json \/ ~resp.data_ok

\* C8: check_status never raises. A transport failure, an HTTP error status,
\* an unparsable body and a checkout from an empty pool all come back as a
\* result of status "error" with the error's text, and after such a result
\* poll_result and the stream poll again; with that result as their last one
\* they end only by their own deadline, never as a failed task or an image.
C8_NeverRaises ==
    poll_log.count > 0 =>
        /\ poll_log.raised = "none"
        /\ (checkout_log.raised # "none" \/ TransportFailure(poll_log.response))
            => (result.status = "error" /\ result.error # Absent)
        /\ (result.status = "error" /\ flow = "poll_result") =>
            \/ fpc = "loop"
            \/ /\ fpc = "done"
               /\ flow_outcome.kind = "PollingTimeout"
               /\ now - poll_log.called_at >= PollTimeout
        /\ (result.status = "error" /\ flow = "stream") =>
            \/ fpc = "loop"
            \/ /\ fpc \in {"finish", "done"}
               /\ now - poll_log.called_at > StreamTimeout
               /\ image_url = Absent
               /\ \A i \in 1..Len(frames) :
                    frames[i].type = "content" => frames[i] = TimeoutFrame

\* poll_result gave up on an empty pool: every poll was a failed checkout.
C8_Witness ==
    /\ flow = "poll_result"
    /\ fpc = "done"
    /\ flow_outcome.kind = "PollingTimeout"
    /\ checkout_log.raised = "NoCookies"
    /\ result = StatusError("NoCookies")

\* How poll_result (lines 203-209) and the stream (main.py, lines 200-203)
\* read a result: by its "status".
ResultKind(r) ==
    IF r.status = "succeeded" THEN "succeeded"
    ELSE IF r.status = "failed" THEN "failed"
    ELSE IF r.status = "error" THEN "transport_error"
    ELSE "pending"

\* C9: the result of a poll whose body was read. Status "succeeded" or
\* "completed" with outputs gives succeeded with the first output, and without
\* outputs gives failed; status "failed" gives failed with the body's error or
\* "Unknown error"; any other status s gives a pending result of status s, one
\* that its readers tell apart from succeeded, failed and a transport error.
C9_Normalization ==
    (poll_log.count > 0 /\ checkout_log.raised = "none"
        /\ ~TransportFailure(poll_log.response)) =>
        LET data == poll_log.response.data
            outputs == IF data.has_outputs THEN data.outputs ELSE <<>>
        IN IF data.status \in {"succeeded", "completed"} /\ outputs # <<>>
           THEN ResultKind(result) = "succeeded" /\ result.output = outputs[1]
           ELSE IF data.status \in {"succeeded", "completed"}
           THEN ResultKind(result) = "failed"
           ELSE IF data.status = "failed"
           THEN /\ ResultKind(result) = "failed"
                /\ result.error = IF data.error = Absent THEN "Unknown error"
                                  ELSE data.error
           ELSE result.status = data.status /\ ResultKind(result) = "pending"

\* C10: what poll_result does between its call and its end. The deadline is
\* the call time plus the timeout and no poll moves it; a poll begins at least
\* the sleep after the one before it returned; the call ends by returning the
\* output of the first poll that reported succeeded, by TaskFailed with the
\* error of the first poll that reported failed, or by PollingTimeout, and
\* that one only when the timeout has elapsed since the call.
C10_Outcome ==
    flow = "poll_result" =>
        /\ start_time = poll_log.called_at
        /\ poll_log.count >= 2 =>
            poll_log.began - poll_log.prev_returned >= PollInterval
        /\ fpc \in {"loop", "done"}
        /\ fpc = "loop" => (poll_log.reported = 0 /\ flow_outcome = NoFlowOutcome)
        /\ fpc = "done" =>
            \/ /\ flow_outcome.kind = "returned"
               /\ result.status = "succeeded"
               /\ flow_outcome.value = result.output
               /\ poll_log.reported = 1
            \/ /\ flow_outcome.kind = "TaskFailed"
               /\ result.status = "failed"
               /\ flow_outcome.value = result.error
               /\ poll_log.reported = 1
            \/ /\ flow_outcome.kind = "PollingTimeout"
               /\ now - poll_log.called_at >= PollTimeout
               /\ poll_log.reported = 0

\* C10: poll_result always terminates, and with one of its three outcomes.
C10_PollResult ==
    /\ [](C10_Outcome)
    /\ (flow = "poll_result") ~> (flow = "poll_result" /\ fpc = "done")

\* A timeout after several polls, one of which was slow.
C10_Witness ==
    /\ flow = "poll_result"
    /\ fpc = "done"
    /\ flow_outcome.kind = "PollingTimeout"
    /\ now - poll_log.called_at > PollTimeout
    /\ poll_log.count >= 2

\* --------------------------------------------------------------- streaming

FramesOfType(fs, ty) == {i \in 1..Len(fs) : fs[i].type = ty}

ImageFrames(fs) == {i \in 1..Len(fs) : fs[i].type = "content" /\ fs[i].kind = "image"}

ErrorFrames(fs) == {i \in 1..Len(fs) : fs[i].type = "content" /\ fs[i].kind = "error"}

\* The stream has ended and its last poll reported succeeded.
StreamSucceeded ==
    flow = "stream" /\ fpc = "done" /\ result.status = "succeeded"

\* role_open, heartbeats, one image content frame, terminal, done.
SuccessFrames(fs) ==
    LET n == Len(fs)
    IN /\ n >= 4
       /\ fs[1] = RoleOpenFrame
       /\ \A i \in 2..(n - 3) : fs[i] = HeartbeatFrame
       /\ fs[n - 2].type = "content" /\ fs[n - 2].kind = "image"
       /\ fs[n - 1] = TerminalFrame
       /\ fs[n] = DoneFrame

\* No heartbeat came less than the keep-alive interval after the heartbeat, or
\* the first chunk, before it.
HeartbeatsSpaced ==
    (flow = "stream" /\ FramesOfType(frames, "heartbeat") # {}) =>
        poll_log.beat_gap >= KeepAliveInterval

\* C11: a stream whose polls end in succeeded yields exactly role_open, zero
\* or more heartbeats, one content frame with the image markup, the terminal
\* frame and done, and every heartbeat comes at least 10 s after the heartbeat
\* (or role_open) before it.
C11_SuccessFrames ==
    /\ StreamSucceeded => SuccessFrames(frames)
    /\ HeartbeatsSpaced

\* C12: whichever way the stream's loop ends, role_open is the first frame and
\* is yielded once; no terminal or done frame is yielded before the end; and
\* at the end there is one terminal frame, immediately before the one done
\* frame, which is last, so that no content or heartbeat frame follows the
\* terminal frame.
C12_OneEnding ==
    flow = "stream" =>
        LET n == Len(frames)
        IN /\ n >= 1
           /\ FramesOfType(frames, "role_open") = {1}
           /\ fpc # "done" =>
                /\ FramesOfType(frames, "terminal") = {}
                /\ FramesOfType(frames, "done") = {}
           /\ fpc = "done" =>
                /\ n >= 3
                /\ FramesOfType(frames, "terminal") = {n - 1}
                /\ FramesOfType(frames, "done") = {n}
                /\ \A i \in 2..(n - 2) : frames[i].type \in {"heartbeat", "content"}

\* A stream that ended on a failed task after some heartbeats.
C12_Witness ==
    /\ flow = "stream"
    /\ fpc = "done"
    /\ result.status = "failed"
    /\ FramesOfType(frames, "heartbeat") # {}
    /\ frames[Len(frames)] = DoneFrame

\* At the end of a stream none of whose polls reported succeeded or failed:
\* one content frame, the timeout text, yielded once the cap had passed; no
\* image; the terminal frame and done once each.
C13_TimedOut ==
    (flow = "stream" /\ fpc = "done" /\ poll_log.reported = 0) =>
        LET n == Len(frames)
        IN /\ n >= 4
           /\ FramesOfType(frames, "content") = {n - 2}
           /\ frames[n - 2] = TimeoutFrame
           /\ ImageFrames(frames) = {}
           /\ now - poll_log.called_at >= StreamTimeout
           /\ FramesOfType(frames, "terminal") = {n - 1}
           /\ FramesOfType(frames, "done") = {n}

\* While no poll has reported succeeded or failed, no content frame is
\* yielded before the cap.
C13_NotEarly ==
    (flow = "stream" /\ poll_log.reported = 0 /\ FramesOfType(frames, "content") # {}) =>
        now - poll_log.called_at >= StreamTimeout

\* C13: a stream whose every poll is pending or a transport error does end,
\* with exactly one timeout content frame, not before 300 s after the loop
\* started, with no image content frame, and with the terminal frame and done
\* once each.
C13_Timeout ==
    /\ [](C13_TimedOut /\ C13_NotEarly)
    /\ (flow = "stream") ~> (flow = "stream" /\ fpc = "done")

\* A stream that timed out on pending polls, having sent heartbeats.
C13_Witness ==
    /\ flow = "stream"
    /\ fpc = "done"
    /\ poll_log.reported = 0
    /\ ResultKind(result) = "pending"
    /\ TimeoutFrame \in Range(frames)
    /\ FramesOfType(frames, "heartbeat") # {}

\* C14: once a poll of the stream reports failed, that poll is the stream's
\* last and the first to report failed or succeeded; the stream has exactly
\* one error content frame, with the failure's reason (the backend's own
\* error when the backend's status was "failed"), and no image content frame.
\* No stream has both an error content frame and an image content frame.
C14_Failed ==
    flow = "stream" =>
        /\ poll_log.reported <= 1
        /\ poll_log.reported = 1 => ResultKind(result) \in {"succeeded", "failed"}
        /\ ResultKind(result) = "failed" =>
            /\ fpc \in {"finish", "done"}
            /\ Cardinality(ErrorFrames(frames)) = 1
            /\ \A i \in ErrorFrames(frames) : frames[i] = ErrorFrame(result.error)
            /\ poll_log.response.data.status = "failed" =>
                \A i \in ErrorFrames(frames) :
                    frames[i].arg = IF poll_log.response.data.error = Absent
                                    THEN "Unknown error"
                                    ELSE poll_log.response.data.error
            /\ ImageFrames(frames) = {}
        /\ ~(ErrorFrames(frames) # {} /\ ImageFrames(frames) # {})

\* A stream ended by a failed poll that carried the backend's reason, after
\* earlier pending polls.
C14_Witness ==
    /\ flow = "stream"
    /\ fpc = "done"
    /\ poll_log.count >= 2
    /\ poll_log.response.data.status = "failed"
    /\ poll_log.response.data.error = "x"
    /\ ErrorFrame("x") \in Range(frames)

\* ---------------------------------------------------------- materialization

\* C15: materializing the result of a successful generation. The final URL is
\* the backend's URL when re-hosting is disabled or its download or upload
\* fails, and the uploaded URL when both succeed; the stream then carries the
\* image markup of the final URL as its one content frame, and the completion
\* carries it as its content; a URL that poll_result returned is never
\* answered with a server error, and a stream's non-empty URL is always
\* materialized.
C15_Materialized ==
    /\ upload_log.made =>
        /\ upload_log.final =
              IF upload_log.enabled /\ upload_log.download_ok /\ upload_log.upload_ok
              THEN R2Url ELSE upload_log.raw
        /\ flow = "stream" =>
              /\ fpc = "done"
              /\ upload_log.raw = image_url
              /\ http_response = StreamResponse
              /\ FramesOfType(frames, "content") = {Len(frames) - 2}
              /\ frames[Len(frames) - 2] = ImageFrame(upload_log.final)
        /\ flow = "poll_result" =>
              /\ upload_log.raw = flow_outcome.value
              /\ http_response = SuccessResponse(upload_log.final)
    /\ (flow = "poll_result" /\ flow_outcome.kind = "returned"
            /\ http_response # NoHttpResponse) =>
        (upload_log.made /\ http_response.shape = "completion")
    /\ (StreamSucceeded /\ Truthy(image_url)) => upload_log.made

\* A stream whose image was downloaded but could not be stored: the client is
\* given the backend's URL.
C15_Witness ==
    /\ request.phase = "created"
    /\ flow = "stream"
    /\ upload_log.made
    /\ upload_log.enabled /\ upload_log.download_ok /\ ~upload_log.upload_ok
    /\ ImageFrame(upload_log.raw) \in Range(frames)

\* C16: whenever upload_image_from_url has been called it has returned a URL,
\* never None, and on a failed download or a failed upload the URL it was
\* given.
C16_UploaderTotal ==
    upload_log.called =>
        /\ upload_log.returned # Absent
        /\ (~upload_log.download_ok \/ ~upload_log.upload_ok) =>
              upload_log.returned = upload_log.raw

\* -------------------------------------------------------------- concurrency

\* A stream in its loop is no later with its heartbeat than its own schedule
\* allows: the keep-alive interval, one poll interval and the time of its own
\* check_status calls.
StreamOnSchedule ==
    (flow = "stream" /\ fpc = "loop") =>
        now - poll_log.beat_at <= KeepAliveInterval + StreamInterval + MaxLag

\* C17: a request that waits between its polls does not hold up the others.
\* While the peer is inside poll_result, a stream whose own sleep is over can
\* take its next step, and the stream keeps to the schedule of its heartbeats.
C17_Suspension ==
    /\ (peer.phase = "polling" /\ flow = "stream" /\ fpc \in {"loop", "finish"}) =>
        ENABLED (LoopStreamIteration \/ LoopStreamFinish)
    /\ StreamOnSchedule

\* C18: the requests' calls run one at a time on the event loop's thread, so
\* every behaviour is an interleaving of whole checkouts and evictions. Each
\* step that changes the active list removes exactly one entry, and the
\* credential it removes was not removed before: the evicted credentials and
\* the removals go one to one, which keeps the number of active credentials at
\* the initial number minus the number of distinct evicted credentials; and
\* an evicted credential is not in the active list.
C18_RemovedOnce ==
    /\ [](\A t \in evicted : t \notin Range(cookies))
    /\ [][cookies' # cookies =>
            /\ Len(cookies') = Len(cookies) - 1
            /\ Cardinality(evicted') = Cardinality(evicted) + 1]_vars

\* The request has its response, and a stream has been written to its end.
RequestEnded ==
    /\ http_response # NoHttpResponse
    /\ http_response.shape = "stream" => (flow = "stream" /\ fpc = "done")

\* The completion with the image markup, or a stream with the image and no
\* error text.
FullSuccess ==
    \/ /\ http_response.shape = "completion"
       /\ http_response.status = 200
       /\ http_response.content.kind = "image"
    \/ /\ http_response.shape = "stream"
       /\ Cardinality(ImageFrames(frames)) = 1
       /\ ErrorFrames(frames) = {}

\* HTTPException(500) with the message as detail, and nothing else sent.
FullFailure ==
    /\ http_response.shape = "server_error"
    /\ http_response.status = 500
    /\ http_response.detail.kind # "none"
    /\ http_response.content = NoMarkup
    /\ frames = <<>>

\* C19 as stated: every request ends as a full success with the image markup
\* or as the server error with the message as detail, in the streaming as in
\* the non-streaming mode; no response of success shape carries an error text.
C19_TwoShapes ==
    RequestEnded =>
        /\ FullSuccess \/ FullFailure
        /\ http_response.status = 200 => ErrorFrames(frames) = {}

\* C19, amended: a request that is not streaming ends as the completion with
\* the image markup or as the server error with the message as detail, and
\* every failure of it (payload dump, no prompt, SubmissionExhausted,
\* TaskFailed, PollingTimeout) is the server error. A streaming request is
\* answered with the server error only for a failure before the stream starts;
\* once the stream has started, the response is the 200 stream, a failed task
\* and the timeout are reported as one error content frame in it, and the
\* stream never carries both an error content frame and an image.
C19_Outcomes ==
    /\ http_response.shape = "completion" =>
            /\ ~request.stream
            /\ FullSuccess
            /\ flow_outcome.kind = "returned"
    /\ http_response.shape = "server_error" => FullFailure
    /\ request.phase = "rejected" => FullFailure
    /\ (~request.stream /\ RequestEnded /\ ~FullSuccess) => FullFailure
    /\ (flow = "poll_result" /\ fpc = "done" /\ http_response # NoHttpResponse
            /\ flow_outcome.kind \in {"TaskFailed", "PollingTimeout"}) =>
            http_response = ServerError(flow_outcome.kind, flow_outcome.value)
    /\ flow = "stream" =>
            /\ request.stream
            /\ http_response = StreamResponse
    /\ (flow = "stream" /\ fpc = "done") =>
            /\ Cardinality(ErrorFrames(frames)) + Cardinality(ImageFrames(frames)) <= 1
            /\ ErrorFrames(frames) # {} <=> result.status # "succeeded"

\* A streaming request whose task failed ended as a 200 stream with the error
\* text in a content frame.
C19_Witness ==
    /\ request.stream
    /\ RequestEnded
    /\ http_response = StreamResponse
    /\ result.status = "failed"
    /\ Cardinality(ErrorFrames(frames)) = 1

\* C20: the seed in every submitted payload is in 0..2147483647, whatever
\* the prompt's seed tags are.
C20_SeedInt32 == seeding.pc = "submitted" => InInt32(seeding.payload)

\* C21: for every prompt, parsing the cleaned prompt that the extraction
\* returned gives the same cleaned prompt, no LoRA and no parameter.
C21_Idempotent ==
    extraction.pc = "reparsed" =>
        /\ extraction.second.cleaned = extraction.first.cleaned
        /\ extraction.second.loras = <<>>
        /\ extraction.second.params = NoParams

\* C22: whenever the active list is not empty, a checkout on the stored
\* cursor raises nothing, returns a member of the active list and leaves a
\* cursor inside the list, also when a removal has left the stored cursor
\* equal to or beyond the new length; and every checkout that was made on a
\* non-empty list returned a cookie and raised nothing.
C22_CursorInRange ==
    /\ cookies # <<>> =>
        LET co == _get_token_and_headers(cookies, current_cookie_index)
        IN /\ co.raised = "none"
           /\ co.token \in Range(cookies)
           /\ co.token = cookies[(current_cookie_index % Len(cookies)) + 1]
           /\ co.index \in 0..(Len(cookies) - 1)
    /\ (checkout_log.made /\ checkout_log.size > 0) =>
        /\ checkout_log.raised = "none"
        /\ checkout_log.token \in Tokens

\* A checkout was made with a stored cursor beyond the end of a list that a
\* removal had shortened.
C22_Witness ==
    /\ checkout_log.made
    /\ checkout_log.size >= 1
    /\ checkout_log.cursor >= checkout_log.size
    /\ checkout_log.raised = "none"
    /\ evicted # {}

\* C23: when the cookie that was just checked out is removed from a list of
\* distinct cookies and other cookies remain, the next checkout returns the
\* cookie that followed the removed one in insertion order, cyclically.
C23_Step ==
    (Distinct(cookies) /\ cookies' # cookies /\ cookies' # <<>>) =>
        LET t == checkout_log'.token
            i == CHOOSE k \in 1..Len(cookies) : cookies[k] = t
            follower == cookies[(i % Len(cookies)) + 1]
        IN _get_token_and_headers(cookies', current_cookie_index').token = follower

C23_RotationKept == [][C23_Step]_vars

\* C24: in a pool of distinct cookies, every cookie of the active list has a
\* failure counter of 0, 1 or 2; a cookie whose counter has reached 3 is not
\* in the active list.
C24_CounterBelowThreshold ==
    /\ \A i \in 1..Len(cookies) :
            token_failure_counts[cookies[i]] \in 0..(EvictThreshold - 1)
    /\ \A t \in Tokens :
            token_failure_counts[t] >= EvictThreshold => t \notin Range(cookies)

\* One cookie has reached the threshold and is gone, another one is active
\* with a counter of 2.
C24_Witness ==
    /\ \E t \in Tokens : token_failure_counts[t] >= EvictThreshold /\ t \in evicted
    /\ \E i \in 1..Len(cookies) : token_failure_counts[cookies[i]] = EvictThreshold - 1

\* C25: a status poll (a step outside create_task) changes no failure
\* counter and removes no cookie, whatever the backend answers. On a
\* non-empty list it checks out the one cookie under the cursor and moves the
\* cursor one position on; on an empty list it leaves the cursor as well.
C25_Step ==
    (pc = "idle" /\ pc' = "idle") =>
        /\ cookies' = cookies
        /\ token_failure_counts' = token_failure_counts
        /\ evicted' = evicted
        /\ checkout_log'.made
        /\ checkout_log'.during = "idle"
        /\ IF cookies = <<>>
           THEN /\ current_cookie_index' = current_cookie_index
                /\ checkout_log'.token = Absent
           ELSE LET n == Len(cookies)
                    i == current_cookie_index % n
                IN /\ current_cookie_index' = (i + 1) % n
                   /\ checkout_log'.token = cookies[i + 1]
                   /\ checkout_log'.cursor = current_cookie_index

C25_StatusPollFrame == [][C25_Step]_vars

\* A status poll has checked out a cookie of a list of two or more while a
\* counter was running and a cookie had been removed.
C25_Witness ==
    /\ pc = "idle"
    /\ checkout_log.made
    /\ checkout_log.during = "idle"
    /\ checkout_log.size >= 2
    /\ checkout_log.raised = "none"
    /\ evicted # {}
    /\ \E i \in 1..Len(cookies) : token_failure_counts[cookies[i]] > 0

\* C26: in a stream whose polls have all been instantaneous, while the loop
\* goes on (the polls return neither succeeded nor failed and the cap is not
\* exceeded), every heartbeat comes at least 10 s and at most 12 s after the
\* heartbeat, or the first chunk, before it, and the loop's next pass is
\* never more than 12 s after the last of them.
C26_HeartbeatCadence ==
    (flow = "stream" /\ poll_log.lag = 0) =>
        /\ FramesOfType(frames, "heartbeat") # {} =>
            /\ poll_log.beat_gap >= KeepAliveInterval
            /\ poll_log.beat_gap <= KeepAliveInterval + StreamInterval
        /\ fpc = "loop" =>
            now - poll_log.beat_at <= KeepAliveInterval + StreamInterval

\* A stream of instantaneous polls is in its loop after its third heartbeat.
C26_Witness ==
    /\ flow = "stream"
    /\ fpc = "loop"
    /\ poll_log.lag = 0
    /\ Cardinality(FramesOfType(frames, "heartbeat")) = 3
    /\ now - start_time <= StreamTimeout

====
